---- MODULE Spec2Model ----
(***************************************************************************)
(* Model of package net's resolver-strategy selection (conf.go):           *)
(*   - conf.hostLookupOrder / conf.canUseCgo, the decision engine;         *)
(*   - systemConf / initConfVal, the once-only process configuration;      *)
(*   - getSystemNSS / setSystemNSS, the cached nsswitch.conf.              *)
(* Strings the code inspects character by character (host names, NSS       *)
(* source names) are sequences of one-character strings.                   *)
(***************************************************************************)
EXTENDS Integers, Sequences, FiniteSets, TLC

VARIABLES
    c,          \* the *conf the engine is called on
    nss,        \* what getSystemNSS() returns to the engine
    gh,         \* what getHostname() returns: [hn, err]
    r,          \* the *Resolver argument of the last call
    hostname,   \* the hostname argument of the last call
    ret,        \* the last call's result
    op,         \* the last operation: "none", "hostLookupOrder", "canUseCgo"
    env,        \* the process environment initConfVal reads
    confVal,    \* the conf the package variable confVal points to
    onceDone,   \* confOnce: its done flag
    onceM,      \* confOnce: the holder of its mutex, 0 when free
    pc,         \* where each goroutine is in systemConf
    calls,      \* how many systemConf calls each goroutine has made
    got,        \* what each goroutine's last systemConf call returned
    initRuns,   \* how many times the body of initConfVal was entered
    now,        \* the clock, time.Now()
    fileVer,    \* the version of /etc/nsswitch.conf on disk
    nssConf,    \* nssConfig.nssConf, the cached value
    lastChecked, \* nssConfig.lastChecked
    nssMu,      \* the holder of nssConfig.mu, 0 when free
    nssSema,    \* the holder of the capacity-one gate, 0 when free
    npc,        \* where each goroutine is in getSystemNSS / setSystemNSS
    loc,        \* each goroutine's locals
    ngot,       \* what each reader's last getSystemNSS call returned
    windowReparses \* reparses since lastChecked was last set

engineVars == <<c, nss, gh, r, hostname, ret, op>>
confVars == <<env, confVal, onceDone, onceM, pc, calls, got, initRuns>>
nssVars == <<now, fileVer, nssConf, lastChecked, nssMu, nssSema, npc, loc, ngot,
             windowReparses>>
vars == <<engineVars, confVars, nssVars>>

(***************************************************************************)
(* Bounds                                                                  *)
(***************************************************************************)
MaxSrcs == 2      \* longest "hosts" source list of nsswitch.conf
MaxLookup == 3    \* longest "lookup" list of resolv.conf
NCallers == 3     \* goroutines that call systemConf
MaxCalls == 2     \* systemConf calls of one goroutine
NReaders == 2     \* goroutines that call getSystemNSS
MaxTime == 3      \* the clock stops here

(***************************************************************************)
(* Strings                                                                 *)
(***************************************************************************)
LowerOf ==
    [A |-> "a", B |-> "b", C |-> "c", D |-> "d", E |-> "e", F |-> "f",
     G |-> "g", H |-> "h", I |-> "i", J |-> "j", K |-> "k", L |-> "l",
     M |-> "m", N |-> "n", O |-> "o", P |-> "p", Q |-> "q", R |-> "r",
     S |-> "s", T |-> "t", U |-> "u", V |-> "v", W |-> "w", X |-> "x",
     Y |-> "y", Z |-> "z"]

lowerASCII(ch) == IF ch \in DOMAIN LowerOf THEN LowerOf[ch] ELSE ch

stringsEqualFold(s, t) ==
    /\ Len(s) = Len(t)
    /\ \A i \in 1..Len(s) : lowerASCII(s[i]) = lowerASCII(t[i])

stringsHasSuffix(s, suffix) ==
    /\ Len(s) >= Len(suffix)
    /\ SubSeq(s, Len(s) - Len(suffix) + 1, Len(s)) = suffix

stringsHasSuffixFold(s, suffix) ==
    /\ Len(s) >= Len(suffix)
    /\ stringsEqualFold(SubSeq(s, Len(s) - Len(suffix) + 1, Len(s)), suffix)

stringsHasPrefix(s, prefix) ==
    /\ Len(s) >= Len(prefix)
    /\ SubSeq(s, 1, Len(prefix)) = prefix

IndexByteString(s, ch) ==
    IF \E i \in 1..Len(s) : s[i] = ch
    THEN (CHOOSE i \in 1..Len(s) : s[i] = ch /\ \A j \in 1..(i - 1) : s[j] # ch) - 1
    ELSE -1

\* literals of conf.go
DotStr == <<".">>
DotLocal == <<".", "l", "o", "c", "a", "l">>
Localhost == <<"l", "o", "c", "a", "l", "h", "o", "s", "t">>
LocalhostLocaldomain == Localhost \o <<".", "l", "o", "c", "a", "l", "d", "o", "m", "a", "i", "n">>
DotLocalhost == DotStr \o Localhost
DotLocalhostLocaldomain == DotStr \o LocalhostLocaldomain
Gateway == <<"_", "g", "a", "t", "e", "w", "a", "y">>
Outbound == <<"_", "o", "u", "t", "b", "o", "u", "n", "d">>
SrcMyhostname == <<"m", "y", "h", "o", "s", "t", "n", "a", "m", "e">>
SrcFiles == <<"f", "i", "l", "e", "s">>
SrcDNS == <<"d", "n", "s">>
MdnsPrefix == <<"m", "d", "n", "s">>

(***************************************************************************)
(* isLocalhost, isGateway, isOutbound                                      *)
(***************************************************************************)
isLocalhost(h) ==
    \/ stringsEqualFold(h, Localhost)
    \/ stringsEqualFold(h, LocalhostLocaldomain)
    \/ stringsHasSuffixFold(h, DotLocalhost)
    \/ stringsHasSuffixFold(h, DotLocalhostLocaldomain)

isGateway(h) == stringsEqualFold(h, Gateway)

isOutbound(h) == stringsEqualFold(h, Outbound)

(***************************************************************************)
(* hostLookupOrder                                                         *)
(***************************************************************************)
IsNotExist(err) == err = "ErrNotExist"

\* (*Resolver).preferGo: a nil resolver prefers nothing
preferGo(res) == ~res.isNil /\ res.PreferGo

\* fallbackOrder that looks at c.netGo alone
fallbackOrderNetGoOnly(cf, res) ==
    IF cf.netGo
    THEN IF cf.goos = "windows" THEN "hostLookupDNS" ELSE "hostLookupFilesDNS"
    ELSE "hostLookupCgo"

\* lines 143-155
fallbackOrder(cf, res) ==
    IF cf.netGo \/ preferGo(res)
    THEN IF cf.goos = "windows" THEN "hostLookupDNS" ELSE "hostLookupFilesDNS"
    ELSE "hostLookupCgo"

\* the early return taken for windows alone
noNativeResolverWindowsOnly(cf) == cf.goos = "windows"

\* line 156
noNativeResolver(cf) == cf.goos = "windows" \/ cf.goos = "plan9"

\* line 159; || evaluates left to right, so c.resolv is read only when
\* forceCgoLookupHost is false
readsNilResolv(cf) == ~cf.forceCgoLookupHost /\ cf.resolv.isNil

mustFallBack(cf) == cf.forceCgoLookupHost \/ cf.resolv.unknownOpt \/ cf.goos = "android"

\* the special-form test without the '%' half
specialFormBackslashOnly(h) == IndexByteString(h, "\\") # -1

\* line 162
specialForm(h) == IndexByteString(h, "\\") # -1 \/ IndexByteString(h, "%") # -1

\* the OpenBSD rule with the two-token results exchanged
openbsdOrderSwapped(cf, fb) ==
    LET lookup == cf.resolv.lookup IN
    IF IsNotExist(cf.resolv.err) THEN "hostLookupFiles"
    ELSE IF Len(lookup) = 0 THEN "hostLookupDNSFiles"
    ELSE IF Len(lookup) < 1 \/ Len(lookup) > 2 THEN fb
    ELSE IF lookup[1] = "bind"
         THEN IF Len(lookup) = 2
              THEN IF lookup[2] = "file" THEN "hostLookupFilesDNS" ELSE fb
              ELSE "hostLookupDNS"
    ELSE IF lookup[1] = "file"
         THEN IF Len(lookup) = 2
              THEN IF lookup[2] = "bind" THEN "hostLookupDNSFiles" ELSE fb
              ELSE "hostLookupFiles"
    ELSE fb

\* lines 170-208, the result on OpenBSD
openbsdOrder(cf, fb) ==
    LET lookup == cf.resolv.lookup IN
    IF IsNotExist(cf.resolv.err) THEN "hostLookupFiles"
    ELSE IF Len(lookup) = 0 THEN "hostLookupDNSFiles"
    ELSE IF Len(lookup) < 1 \/ Len(lookup) > 2 THEN fb
    ELSE IF lookup[1] = "bind"
         THEN IF Len(lookup) = 2
              THEN IF lookup[2] = "file" THEN "hostLookupDNSFiles" ELSE fb
              ELSE "hostLookupDNS"
    ELSE IF lookup[1] = "file"
         THEN IF Len(lookup) = 2
              THEN IF lookup[2] = "bind" THEN "hostLookupFilesDNS" ELSE fb
              ELSE "hostLookupFiles"
    ELSE fb

\* no removal of the trailing dot
canonicalHostnameKeepDot(h) == h

\* lines 211-213
canonicalHostname(h) ==
    IF stringsHasSuffix(h, DotStr) THEN SubSeq(h, 1, Len(h) - 1) ELSE h

\* line 214
isDotLocal(h) == stringsHasSuffixFold(h, DotLocal)

\* the myhostname test with a case-sensitive comparison of the host name
myhostnameClaimsExact(h, g) ==
    \/ isLocalhost(h) \/ isGateway(h) \/ isOutbound(h)
    \/ g.err # "nil"
    \/ h = g.hn

\* lines 244-250: does the "myhostname" source claim the name h
myhostnameClaims(h, g) ==
    \/ isLocalhost(h) \/ isGateway(h) \/ isOutbound(h)
    \/ g.err # "nil"
    \/ stringsEqualFold(h, g.hn)

\* lines 242-276, one iteration of the loop over srcs; st.returned is set
\* when the iteration returns fallbackOrder
scanStep(st, src, h, g) ==
    IF src.source = SrcMyhostname
    THEN IF myhostnameClaims(h, g) THEN [st EXCEPT !.returned = TRUE] ELSE st
    ELSE IF src.source = SrcFiles \/ src.source = SrcDNS
    THEN IF ~src.standardCriteria
         THEN [st EXCEPT !.returned = TRUE]
         ELSE [st EXCEPT !.filesSource = @ \/ src.source = SrcFiles,
                         !.dnsSource = @ \/ (src.source # SrcFiles /\ src.source = SrcDNS),
                         !.first = IF @ = <<>> THEN src.source ELSE @]
    ELSE IF stringsHasPrefix(src.source, MdnsPrefix)
    THEN [st EXCEPT !.mdnsSource = TRUE]
    ELSE [st EXCEPT !.returned = TRUE]

RECURSIVE scanSources(_, _, _, _, _)
scanSources(srcs, i, st, h, g) ==
    IF i > Len(srcs) \/ st.returned THEN st
    ELSE scanSources(srcs, i + 1, scanStep(st, srcs[i], h, g), h, g)

\* line 240-241
scanInit ==
    [mdnsSource |-> FALSE, filesSource |-> FALSE, dnsSource |-> FALSE,
     first |-> <<>>, returned |-> FALSE]

\* the final switch without the test of which source came first
classifyFilesFirst(st, fb) ==
    IF st.filesSource /\ st.dnsSource THEN "hostLookupFilesDNS"
    ELSE IF st.filesSource THEN "hostLookupFiles"
    ELSE IF st.dnsSource THEN "hostLookupDNS"
    ELSE fb

\* lines 287-301
classify(st, fb) ==
    IF st.filesSource /\ st.dnsSource
    THEN IF st.first = SrcFiles THEN "hostLookupFilesDNS" ELSE "hostLookupDNSFiles"
    ELSE IF st.filesSource THEN "hostLookupFiles"
    ELSE IF st.dnsSource THEN "hostLookupDNS"
    ELSE fb

\* the default without the solaris exception
nssDefaultOrderAnyOS(cf, fb) == "hostLookupFilesDNS"

\* lines 227-231: nsswitch.conf absent or without "hosts" sources
nssDefaultOrder(cf, fb) ==
    IF cf.goos = "solaris" THEN fb ELSE "hostLookupFilesDNS"

\* lines 222-301, from getSystemNSS() on
nssOrder(cf, fb, h, n, g) ==
    LET srcs == n.sources
        st == scanSources(srcs, 1, scanInit, h, g)
    IN
    IF IsNotExist(n.err) \/ (n.err = "nil" /\ Len(srcs) = 0)
    THEN nssDefaultOrder(cf, fb)
    ELSE IF n.err # "nil" THEN fb
    ELSE IF st.returned THEN fb
    ELSE IF st.mdnsSource /\ cf.hasMDNSAllow THEN fb
    ELSE classify(st, fb)

hostLookupOrder(cf, res, h, n, g) ==
    LET fb == fallbackOrder(cf, res)
        hc == canonicalHostname(h)
    IN
    IF noNativeResolver(cf) THEN fb
    ELSE IF readsNilResolv(cf) THEN "panic"
    ELSE IF mustFallBack(cf) THEN fb
    ELSE IF specialForm(h) THEN fb
    ELSE IF cf.goos = "openbsd" THEN openbsdOrder(cf, fb)
    ELSE IF isDotLocal(hc) THEN fb
    ELSE nssOrder(cf, fb, hc, n, g)

\* lines 131-133
NilResolver == [isNil |-> TRUE, PreferGo |-> FALSE]

canUseCgo(cf, n, g) == hostLookupOrder(cf, NilResolver, <<>>, n, g) = "hostLookupCgo"

(***************************************************************************)
(* The inputs the engine is exercised on                                   *)
(***************************************************************************)
SeqsUpTo(S, n) == UNION {[1..k -> S] : k \in 0..n}

Goos == {"linux", "darwin", "solaris", "android", "openbsd", "windows", "plan9"}

Resolvers == {NilResolver} \cup [isNil : {FALSE}, PreferGo : BOOLEAN]

SrcMdns4 == MdnsPrefix \o <<"4">>
SrcNis == <<"n", "i", "s">>

\* an nssSource: its name and whether its criteria are the standard ones
NSSSources ==
    [source : {SrcFiles, SrcDNS}, standardCriteria : BOOLEAN]
    \cup [source : {SrcMyhostname, SrcMdns4, SrcNis}, standardCriteria : {TRUE}]

Std(name) == [source |-> name, standardCriteria |-> TRUE]

\* an nssConf: the "hosts" sources, or the error of opening or parsing the file
NSSConfs ==
    [err : {"nil"}, sources : SeqsUpTo(NSSSources, MaxSrcs)]
    \cup [err : {"ErrNotExist", "ErrOther"}, sources : {<<>>}]

NSSFew ==
    {[err |-> "ErrNotExist", sources |-> <<>>],
     [err |-> "ErrOther", sources |-> <<>>],
     [err |-> "nil", sources |-> <<Std(SrcFiles), Std(SrcDNS)>>],
     [err |-> "nil", sources |-> <<Std(SrcDNS)>>],
     [err |-> "nil", sources |-> <<Std(SrcMyhostname), Std(SrcFiles)>>]}

\* a dnsConfig: a resolv.conf that could not be read has the defaults
\* (defaultResolvConf), one that was read has any lookup list
LookupTokens == {"bind", "file", "yp"}

NilResolv == [isNil |-> TRUE, unknownOpt |-> FALSE, err |-> "nil", lookup |-> <<>>]

ResolvRead ==
    [isNil : {FALSE}, unknownOpt : {FALSE}, err : {"nil"},
     lookup : SeqsUpTo(LookupTokens, MaxLookup)]
    \cup [isNil : {FALSE}, unknownOpt : {TRUE}, err : {"nil"},
          lookup : SeqsUpTo(LookupTokens, 1)]

ResolvUnread ==
    [isNil : {FALSE}, unknownOpt : {FALSE},
     err : {"ErrNotExist", "ErrPermission", "ErrOther"}, lookup : {<<>>}]

ResolvFew ==
    {rc \in ResolvRead \cup ResolvUnread :
        /\ rc.err \in {"nil", "ErrNotExist"}
        /\ rc.lookup \in {<<>>, <<"bind">>}
        /\ rc.unknownOpt => rc.lookup = <<>>}

\* initConfVal leaves resolv nil only on its early returns
ResolvOf(goos, force) ==
    (IF goos = "openbsd" THEN ResolvRead \cup ResolvUnread ELSE ResolvFew)
    \cup (IF force \/ goos \in {"windows", "plan9"} THEN {NilResolv} ELSE {})

Confs ==
    UNION {
        [forceCgoLookupHost : {force}, netGo : BOOLEAN, netCgo : {force},
         hasMDNSAllow : BOOLEAN, goos : {goos}, dnsDebugLevel : {0},
         resolv : ResolvOf(goos, force)] :
        goos \in Goos, force \in BOOLEAN}

\* the configurations on which the NSS sources decide; these are paired with
\* every nsswitch.conf, the others with a few
ScansNSS(cf) ==
    /\ cf.goos \in {"linux", "solaris"}
    /\ ~cf.forceCgoLookupHost
    /\ ~cf.resolv.isNil
    /\ ~cf.resolv.unknownOpt
    /\ cf.resolv.lookup = <<>>

HostName == <<"h", "o", "s", "t">>

Hostnames ==
    {<<>>,
     <<"x">>,
     <<"x">> \o DotLocal,
     <<"X", ".", "L", "o", "C", "A", "L", ".">>,
     HostName,
     <<"H", "o", "s", "T">>,
     HostName \o DotStr,
     Localhost,
     <<"a", ".", "L", "O", "C", "A", "L", "h", "o", "s", "t">>,
     <<"L">> \o Tail(LocalhostLocaldomain) \o DotStr,
     <<"_", "G", "a", "t", "e", "w", "a", "y">>,
     Outbound,
     <<"x", "%", "e">>,
     <<"x", "\\", "y">>}

GetHostnames == {[hn |-> HostName, err |-> "nil"], [hn |-> <<>>, err |-> "ErrOther"]}

(***************************************************************************)
(* The NSS cache: getSystemNSS and the override hook setSystemNSS          *)
(***************************************************************************)
TTL == 2          \* how long a cached nsswitch.conf stays fresh

Hour == MaxTime + TTL

Readers == 1..NReaders
Setter == NReaders + 1
NSSProcs == Readers \cup {Setter}

\* a parsed nsswitch.conf: its sources and its error come from one parse
ParsedFile(ver) == [sources |-> <<"file", ver>>, err |-> <<"file", ver>>]
Override(k) == [sources |-> <<"set", k>>, err |-> <<"set", k>>]
Overrides == {Override(1)}

NoLocals == [arg |-> ParsedFile(0), addDur |-> 0, parsed |-> ParsedFile(0), checkedAt |-> 0]

\* the cache after its first load
NSSIdle ==
    /\ now = 0
    /\ fileVer = 0
    /\ nssConf = ParsedFile(0)
    /\ lastChecked = 0
    /\ nssMu = 0
    /\ nssSema = 0
    /\ npc = [p \in NSSProcs |-> "idle"]
    /\ loc = [p \in NSSProcs |-> NoLocals]
    /\ ngot = [p \in Readers |-> <<>>]
    /\ windowReparses = 0

Stale == lastChecked + TTL <= now

Tick ==
    /\ now < MaxTime
    /\ now' = now + 1
    /\ UNCHANGED <<fileVer, nssConf, lastChecked, nssMu, nssSema, npc, loc, ngot, windowReparses>>
    /\ UNCHANGED <<engineVars, confVars>>

\* /etc/nsswitch.conf is edited: one of two contents
EditFile ==
    /\ fileVer' = 1 - fileVer
    /\ UNCHANGED <<now, nssConf, lastChecked, nssMu, nssSema, npc, loc, ngot, windowReparses>>
    /\ UNCHANGED <<engineVars, confVars>>

\* getSystemNSS: a reader's call begins
getSystemNSSCall(p) ==
    /\ npc[p] = "idle"
    /\ npc' = [npc EXCEPT ![p] = "check"]
    /\ UNCHANGED <<now, fileVer, nssConf, lastChecked, nssMu, nssSema, loc, ngot, windowReparses>>
    /\ UNCHANGED <<engineVars, confVars>>

\* the reader's own check of the timestamp, in one critical section of the
\* mutex; setSystemNSS writes the timestamp under the gate alone, so this
\* read races with it and may find anything while the hook is at that write
GetCheck(p) ==
    /\ npc[p] = "check"
    /\ nssMu = 0
    /\ \E stale \in BOOLEAN :
        /\ npc[Setter] # "set_time" => stale = Stale
        /\ npc' = [npc EXCEPT ![p] = IF stale THEN "gate" ELSE "read"]
    /\ UNCHANGED <<now, fileVer, nssConf, lastChecked, nssMu, nssSema, loc, ngot,
                   windowReparses>>
    /\ UNCHANGED <<engineVars, confVars>>

\* a stale reader waits at the gate
GetGate(p) ==
    /\ npc[p] = "gate"
    /\ nssSema = 0
    /\ nssSema' = p
    /\ npc' = [npc EXCEPT ![p] = "recheck"]
    /\ UNCHANGED <<now, fileVer, nssConf, lastChecked, nssMu, loc, ngot,
                   windowReparses>>
    /\ UNCHANGED <<engineVars, confVars>>

\* inside the gate the reader checks again and reparses the file if the
\* entry is still stale
GetRecheck(p) ==
    /\ npc[p] = "recheck"
    /\ IF Stale
       THEN /\ loc' = [loc EXCEPT ![p].parsed = ParsedFile(fileVer), ![p].checkedAt = now]
            /\ windowReparses' = windowReparses + 1
            /\ npc' = [npc EXCEPT ![p] = "store"]
       ELSE /\ loc' = [loc EXCEPT ![p].checkedAt = now]
            /\ npc' = [npc EXCEPT ![p] = "release"]
            /\ UNCHANGED windowReparses
    /\ UNCHANGED <<now, fileVer, nssConf, lastChecked, nssMu, nssSema, ngot>>
    /\ UNCHANGED <<engineVars, confVars>>

\* the reparsed value and the time of the check are stored in one critical
\* section of the mutex
GetStore(p) ==
    /\ npc[p] = "store"
    /\ nssMu = 0
    /\ nssConf' = loc[p].parsed
    /\ lastChecked' = loc[p].checkedAt
    /\ windowReparses' = 0
    /\ npc' = [npc EXCEPT ![p] = "release"]
    /\ UNCHANGED <<now, fileVer, nssMu, nssSema, loc, ngot>>
    /\ UNCHANGED <<engineVars, confVars>>

GetRelease(p) ==
    /\ npc[p] = "release"
    /\ nssSema' = 0
    /\ npc' = [npc EXCEPT ![p] = "read"]
    /\ loc' = [loc EXCEPT ![p] = NoLocals]
    /\ UNCHANGED <<now, fileVer, nssConf, lastChecked, nssMu, ngot,
                   windowReparses>>
    /\ UNCHANGED <<engineVars, confVars>>

\* the reader takes the cached value in a critical section of the mutex
GetRead(p) ==
    /\ npc[p] = "read"
    /\ nssMu = 0
    /\ ngot' = [ngot EXCEPT ![p] = <<nssConf>>]
    /\ npc' = [npc EXCEPT ![p] = "return"]
    /\ UNCHANGED <<now, fileVer, nssConf, lastChecked, nssMu, nssSema, loc,
                   windowReparses>>
    /\ UNCHANGED <<engineVars, confVars>>

\* the reader returns what it took; its frame is gone
getSystemNSSReturn(p) ==
    /\ npc[p] = "return"
    /\ ngot' = [ngot EXCEPT ![p] = <<>>]
    /\ npc' = [npc EXCEPT ![p] = "idle"]
    /\ UNCHANGED <<now, fileVer, nssConf, lastChecked, nssMu, nssSema, loc, windowReparses>>
    /\ UNCHANGED <<engineVars, confVars>>

\* setSystemNSS(nss, addDur) is called
setSystemNSSCall(v, d) ==
    /\ npc[Setter] = "idle"
    /\ loc' = [loc EXCEPT ![Setter].arg = v, ![Setter].addDur = d]
    /\ npc' = [npc EXCEPT ![Setter] = "set_lock"]
    /\ UNCHANGED <<now, fileVer, nssConf, lastChecked, nssMu, nssSema, ngot,
                   windowReparses>>
    /\ UNCHANGED <<engineVars, confVars>>

\* part_000 line 373: nssConfig.mu.Lock()
SetLock ==
    /\ npc[Setter] = "set_lock"
    /\ nssMu = 0
    /\ nssMu' = Setter
    /\ npc' = [npc EXCEPT ![Setter] = "set_store"]
    /\ UNCHANGED <<now, fileVer, nssConf, lastChecked, nssSema, loc, ngot,
                   windowReparses>>
    /\ UNCHANGED <<engineVars, confVars>>

\* a hook that replaces the sources and keeps the old value's error
SetStoreSourcesOnly ==
    /\ npc[Setter] = "set_store"
    /\ nssConf' = [nssConf EXCEPT !.sources = loc[Setter].arg.sources]
    /\ npc' = [npc EXCEPT ![Setter] = "set_unlock"]
    /\ UNCHANGED <<now, fileVer, lastChecked, nssMu, nssSema, loc, ngot,
                   windowReparses>>
    /\ UNCHANGED <<engineVars, confVars>>

\* line 374: nssConfig.nssConf = nss
SetStore ==
    /\ npc[Setter] = "set_store"
    /\ nssConf' = loc[Setter].arg
    /\ npc' = [npc EXCEPT ![Setter] = "set_unlock"]
    /\ UNCHANGED <<now, fileVer, lastChecked, nssMu, nssSema, loc, ngot,
                   windowReparses>>
    /\ UNCHANGED <<engineVars, confVars>>

\* line 375: nssConfig.mu.Unlock()
SetUnlock ==
    /\ npc[Setter] = "set_unlock"
    /\ nssMu' = 0
    /\ npc' = [npc EXCEPT ![Setter] = "set_acquire"]
    /\ UNCHANGED <<now, fileVer, nssConf, lastChecked, nssSema, loc, ngot,
                   windowReparses>>
    /\ UNCHANGED <<engineVars, confVars>>

\* line 376: nssConfig.acquireSema()
SetAcquireSema ==
    /\ npc[Setter] = "set_acquire"
    /\ nssSema = 0
    /\ nssSema' = Setter
    /\ npc' = [npc EXCEPT ![Setter] = "set_time"]
    /\ UNCHANGED <<now, fileVer, nssConf, lastChecked, nssMu, loc, ngot,
                   windowReparses>>
    /\ UNCHANGED <<engineVars, confVars>>

\* line 377: nssConfig.lastChecked = time.Now().Add(addDur)
SetTime ==
    /\ npc[Setter] = "set_time"
    /\ lastChecked' = now + loc[Setter].addDur
    /\ windowReparses' = 0
    /\ npc' = [npc EXCEPT ![Setter] = "set_release"]
    /\ UNCHANGED <<now, fileVer, nssConf, nssMu, nssSema, loc, ngot>>
    /\ UNCHANGED <<engineVars, confVars>>

\* line 378: nssConfig.releaseSema()
SetReleaseSema ==
    /\ npc[Setter] = "set_release"
    /\ nssSema' = 0
    /\ npc' = [npc EXCEPT ![Setter] = "idle"]
    /\ loc' = [loc EXCEPT ![Setter] = NoLocals]
    /\ UNCHANGED <<now, fileVer, nssConf, lastChecked, nssMu, ngot,
                   windowReparses>>
    /\ UNCHANGED <<engineVars, confVars>>

(***************************************************************************)
(* goDebugNetDNS                                                           *)
(***************************************************************************)
DigitValue ==
    [ch \in {"0", "1", "2", "3", "4", "5", "6", "7", "8", "9"} |->
        CASE ch = "0" -> 0 [] ch = "1" -> 1 [] ch = "2" -> 2 [] ch = "3" -> 3
          [] ch = "4" -> 4 [] ch = "5" -> 5 [] ch = "6" -> 6 [] ch = "7" -> 7
          [] ch = "8" -> 8 [] ch = "9" -> 9]

\* dtoi: the value of the decimal digits s starts with
RECURSIVE dtoiFrom(_, _, _)
dtoiFrom(s, i, n) ==
    IF i > Len(s) \/ s[i] \notin DOMAIN DigitValue THEN n
    ELSE dtoiFrom(s, i + 1, n * 10 + DigitValue[s[i]])

dtoi(s) == dtoiFrom(s, 1, 0)

\* lines 318-327: the closure parsePart, on the results so far
parsePart(s, res) ==
    IF s = <<>> THEN res
    ELSE IF s[1] \in DOMAIN DigitValue THEN [res EXCEPT !.debugLevel = dtoi(s)]
    ELSE [res EXCEPT !.dnsMode = s]

\* lines 316-335
goDebugNetDNS(goDebug) ==
    LET i == IndexByteString(goDebug, "+")
        none == [dnsMode |-> <<>>, debugLevel |-> 0]
    IN
    IF i # -1
    THEN parsePart(SubSeq(goDebug, i + 2, Len(goDebug)), parsePart(SubSeq(goDebug, 1, i), none))
    ELSE parsePart(goDebug, none)

ModeGo == <<"g", "o">>
ModeCgo == <<"c", "g", "o">>

(***************************************************************************)
(* The process environment                                                 *)
(***************************************************************************)
\* an environment variable is "unset", "empty" (set to "") or "set"
Getenv(v) == IF v = "set" THEN "set" ELSE ""

LookupEnv(v) == v # "unset"

IsPermission(err) == err = "ErrPermission"

DefaultResolvConf ==
    [isNil |-> FALSE, unknownOpt |-> FALSE, err |-> "ErrNotExist", lookup |-> <<>>]

DefaultEnv ==
    [GOOS |-> "linux", netdns |-> <<>>, tagNetGo |-> FALSE, tagNetCgo |-> FALSE,
     RES_OPTIONS |-> "unset", HOSTALIASES |-> "unset", LOCALDOMAIN |-> "unset",
     ASR_CONFIG |-> "unset", resolvConf |-> DefaultResolvConf, mdnsAllow |-> FALSE]

\* one environment for each path through initConfVal
EnvFew ==
    {DefaultEnv,
     [DefaultEnv EXCEPT !.netdns = ModeGo \o <<"+", "1">>, !.mdnsAllow = TRUE,
                        !.resolvConf = [DefaultResolvConf EXCEPT !.err = "nil",
                                                                 !.lookup = <<"file", "bind">>]],
     [DefaultEnv EXCEPT !.resolvConf = [DefaultResolvConf EXCEPT !.err = "ErrOther"]],
     [DefaultEnv EXCEPT !.LOCALDOMAIN = "empty"],
     [DefaultEnv EXCEPT !.netdns = <<"2", "+">> \o ModeCgo],
     [DefaultEnv EXCEPT !.GOOS = "darwin"],
     [DefaultEnv EXCEPT !.GOOS = "windows"],
     [DefaultEnv EXCEPT !.GOOS = "openbsd", !.ASR_CONFIG = "set"]}

Callers == 1..NCallers

\* the state of the package before any systemConf call (lines 35-38)
ConfIdle ==
    /\ confVal = [forceCgoLookupHost |-> FALSE, netGo |-> FALSE, netCgo |-> FALSE,
                  hasMDNSAllow |-> FALSE, goos |-> env.GOOS, dnsDebugLevel |-> 0,
                  resolv |-> NilResolv]
    /\ onceDone = FALSE
    /\ onceM = 0
    /\ pc = [p \in Callers |-> "idle"]
    /\ calls = [p \in Callers |-> 0]
    /\ got = [p \in Callers |-> <<>>]
    /\ initRuns = 0

(***************************************************************************)
(* initConfVal, in the steps another goroutine could observe               *)
(***************************************************************************)
\* lines 47-61
InitMode(p) ==
    /\ pc[p] = "init_mode"
    /\ LET nd == goDebugNetDNS(env.netdns)
           go == env.tagNetGo \/ nd.dnsMode = ModeGo
           cgo == env.tagNetCgo \/ nd.dnsMode = ModeCgo
       IN confVal' = [confVal EXCEPT
              !.dnsDebugLevel = nd.debugLevel,
              !.netGo = go,
              !.netCgo = cgo \/ (~go /\ ~cgo /\ env.GOOS \in {"windows", "plan9"})]
    /\ pc' = [pc EXCEPT ![p] = "init_os"]
    /\ UNCHANGED <<env, onceDone, onceM, calls, got, initRuns>>
    /\ UNCHANGED <<engineVars, nssVars>>

\* InitOS that returns early on darwin and ios without forcing the native path
InitOSDarwinNoForce(p) ==
    /\ pc[p] = "init_os"
    /\ IF env.GOOS \in {"darwin", "ios", "windows", "plan9"}
       THEN pc' = [pc EXCEPT ![p] = "init_done"]
       ELSE pc' = [pc EXCEPT ![p] = "init_env"]
    /\ UNCHANGED <<env, confVal, onceDone, onceM, calls, got, initRuns>>
    /\ UNCHANGED <<engineVars, nssVars>>

\* lines 86-93
InitOS(p) ==
    /\ pc[p] = "init_os"
    /\ IF env.GOOS = "darwin" \/ env.GOOS = "ios"
       THEN /\ confVal' = [confVal EXCEPT !.forceCgoLookupHost = TRUE]
            /\ pc' = [pc EXCEPT ![p] = "init_done"]
       ELSE IF env.GOOS = "windows" \/ env.GOOS = "plan9"
       THEN /\ pc' = [pc EXCEPT ![p] = "init_done"]
            /\ UNCHANGED confVal
       ELSE /\ pc' = [pc EXCEPT ![p] = "init_env"]
            /\ UNCHANGED confVal
    /\ UNCHANGED <<env, onceDone, onceM, calls, got, initRuns>>
    /\ UNCHANGED <<engineVars, nssVars>>

\* InitEnv that tests LOCALDOMAIN like the other two, by a non-empty value
InitEnvLocalDomainNonEmpty(p) ==
    /\ pc[p] = "init_env"
    /\ IF \/ Getenv(env.RES_OPTIONS) # ""
          \/ Getenv(env.HOSTALIASES) # ""
          \/ confVal.netCgo
          \/ Getenv(env.LOCALDOMAIN) # ""
       THEN /\ confVal' = [confVal EXCEPT !.forceCgoLookupHost = TRUE]
            /\ pc' = [pc EXCEPT ![p] = "init_done"]
       ELSE IF env.GOOS = "openbsd" /\ Getenv(env.ASR_CONFIG) # ""
       THEN /\ confVal' = [confVal EXCEPT !.forceCgoLookupHost = TRUE]
            /\ pc' = [pc EXCEPT ![p] = "init_done"]
       ELSE /\ pc' = [pc EXCEPT ![p] = "init_resolv"]
            /\ UNCHANGED confVal
    /\ UNCHANGED <<env, onceDone, onceM, calls, got, initRuns>>
    /\ UNCHANGED <<engineVars, nssVars>>

\* lines 98-112
InitEnv(p) ==
    /\ pc[p] = "init_env"
    /\ IF \/ Getenv(env.RES_OPTIONS) # ""
          \/ Getenv(env.HOSTALIASES) # ""
          \/ confVal.netCgo
          \/ LookupEnv(env.LOCALDOMAIN)
       THEN /\ confVal' = [confVal EXCEPT !.forceCgoLookupHost = TRUE]
            /\ pc' = [pc EXCEPT ![p] = "init_done"]
       ELSE IF env.GOOS = "openbsd" /\ Getenv(env.ASR_CONFIG) # ""
       THEN /\ confVal' = [confVal EXCEPT !.forceCgoLookupHost = TRUE]
            /\ pc' = [pc EXCEPT ![p] = "init_done"]
       ELSE /\ pc' = [pc EXCEPT ![p] = "init_resolv"]
            /\ UNCHANGED confVal
    /\ UNCHANGED <<env, onceDone, onceM, calls, got, initRuns>>
    /\ UNCHANGED <<engineVars, nssVars>>

\* lines 114-122
InitResolv(p) ==
    /\ pc[p] = "init_resolv"
    /\ LET rc == env.resolvConf IN
       confVal' = [confVal EXCEPT
           !.resolv = rc,
           !.forceCgoLookupHost =
               @ \/ (rc.err # "nil" /\ ~IsNotExist(rc.err) /\ ~IsPermission(rc.err))]
    /\ pc' = [pc EXCEPT ![p] = "init_mdns"]
    /\ UNCHANGED <<env, onceDone, onceM, calls, got, initRuns>>
    /\ UNCHANGED <<engineVars, nssVars>>

\* lines 124-126
InitMdns(p) ==
    /\ pc[p] = "init_mdns"
    /\ confVal' = [confVal EXCEPT !.hasMDNSAllow = @ \/ env.mdnsAllow]
    /\ pc' = [pc EXCEPT ![p] = "init_done"]
    /\ UNCHANGED <<env, onceDone, onceM, calls, got, initRuns>>
    /\ UNCHANGED <<engineVars, nssVars>>

(***************************************************************************)
(* systemConf and confOnce                                                 *)
(***************************************************************************)
\* systemConf that calls initConfVal itself, without confOnce
systemConfCallNoOnce(p) ==
    /\ pc[p] = "idle"
    /\ calls[p] < MaxCalls
    /\ calls' = [calls EXCEPT ![p] = @ + 1]
    /\ pc' = [pc EXCEPT ![p] = "init_mode"]
    /\ initRuns' = initRuns + 1
    /\ UNCHANGED <<env, confVal, onceDone, onceM, got>>
    /\ UNCHANGED <<engineVars, nssVars>>

\* line 42: systemConf enters confOnce.Do(initConfVal)
systemConfCall(p) ==
    /\ pc[p] = "idle"
    /\ calls[p] < MaxCalls
    /\ calls' = [calls EXCEPT ![p] = @ + 1]
    /\ pc' = [pc EXCEPT ![p] = "once_check"]
    /\ UNCHANGED <<env, confVal, onceDone, onceM, got, initRuns>>
    /\ UNCHANGED <<engineVars, nssVars>>

\* Once.Do: done already, nothing to run
OnceFast(p) ==
    /\ pc[p] = "once_check"
    /\ pc' = [pc EXCEPT ![p] = IF onceDone THEN "return" ELSE "once_lock"]
    /\ UNCHANGED <<env, confVal, onceDone, onceM, calls, got, initRuns>>
    /\ UNCHANGED <<engineVars, nssVars>>

\* Once.Do: wait for the mutex, then run the function unless it has run
OnceLock(p) ==
    /\ pc[p] = "once_lock"
    /\ onceM = 0
    /\ onceM' = p
    /\ IF onceDone
       THEN /\ pc' = [pc EXCEPT ![p] = "once_unlock"]
            /\ UNCHANGED initRuns
       ELSE /\ pc' = [pc EXCEPT ![p] = "init_mode"]
            /\ initRuns' = initRuns + 1
    /\ UNCHANGED <<env, confVal, onceDone, calls, got>>
    /\ UNCHANGED <<engineVars, nssVars>>

\* Once.Do: the function has returned
OnceDone(p) ==
    /\ pc[p] = "init_done"
    /\ onceDone' = TRUE
    /\ pc' = [pc EXCEPT ![p] = "once_unlock"]
    /\ UNCHANGED <<env, confVal, onceM, calls, got, initRuns>>
    /\ UNCHANGED <<engineVars, nssVars>>

OnceUnlock(p) ==
    /\ pc[p] = "once_unlock"
    /\ onceM' = IF onceM = p THEN 0 ELSE onceM
    /\ pc' = [pc EXCEPT ![p] = "return"]
    /\ UNCHANGED <<env, confVal, onceDone, calls, got, initRuns>>
    /\ UNCHANGED <<engineVars, nssVars>>

\* line 43: return confVal
systemConfReturn(p) ==
    /\ pc[p] = "return"
    /\ got' = [got EXCEPT ![p] = <<confVal>>]
    /\ pc' = [pc EXCEPT ![p] = "idle"]
    /\ UNCHANGED <<env, confVal, onceDone, onceM, calls, initRuns>>
    /\ UNCHANGED <<engineVars, nssVars>>

EngineIdle ==
    /\ c = [forceCgoLookupHost |-> FALSE, netGo |-> FALSE, netCgo |-> FALSE,
            hasMDNSAllow |-> FALSE, goos |-> "linux", dnsDebugLevel |-> 0,
            resolv |-> DefaultResolvConf]
    /\ nss = [err |-> "ErrNotExist", sources |-> <<>>]
    /\ gh = [hn |-> HostName, err |-> "nil"]
    /\ r = NilResolver
    /\ hostname = <<>>
    /\ ret = "none"
    /\ op = "none"

InitConf ==
    /\ env \in EnvFew
    /\ ConfIdle
    /\ EngineIdle
    /\ NSSIdle

NextConf ==
    \/ \E p \in Callers : systemConfCall(p)
    \/ \E p \in Callers : OnceFast(p)
    \/ \E p \in Callers : OnceLock(p)
    \/ \E p \in Callers : InitMode(p)
    \/ \E p \in Callers : InitOS(p)
    \/ \E p \in Callers : InitEnv(p)
    \/ \E p \in Callers : InitResolv(p)
    \/ \E p \in Callers : InitMdns(p)
    \/ \E p \in Callers : OnceDone(p)
    \/ \E p \in Callers : OnceUnlock(p)
    \/ \E p \in Callers : systemConfReturn(p)

SpecConf == InitConf /\ [][NextConf]_vars

(***************************************************************************)
(* The engine's specification: any configuration, then any calls           *)
(***************************************************************************)
Init ==
    /\ env = DefaultEnv
    /\ ConfIdle
    /\ NSSIdle
    /\ c \in Confs
    /\ nss \in NSSConfs
    /\ ScansNSS(c) \/ nss \in NSSFew
    /\ gh \in GetHostnames
    /\ r = NilResolver
    /\ hostname = <<>>
    /\ ret = "none"
    /\ op = "none"

\* one lookup request: the caller passes its resolver and the name
HostLookupOrderCall(res, h) ==
    /\ op = "none"
    /\ r' = res
    /\ hostname' = h
    /\ ret' = hostLookupOrder(c, res, h, nss, gh)
    /\ op' = "hostLookupOrder"
    /\ UNCHANGED <<c, nss, gh>>
    /\ UNCHANGED <<confVars, nssVars>>

CanUseCgoCall ==
    /\ op = "none"
    /\ r' = NilResolver
    /\ hostname' = <<>>
    /\ ret' = IF canUseCgo(c, nss, gh) THEN "true" ELSE "false"
    /\ op' = "canUseCgo"
    /\ UNCHANGED <<c, nss, gh>>
    /\ UNCHANGED <<confVars, nssVars>>

Next ==
    \/ \E res \in Resolvers, h \in Hostnames : HostLookupOrderCall(res, h)
    \/ CanUseCgoCall

Spec == Init /\ [][Next]_vars

(***************************************************************************)
(* Properties of hostLookupOrder                                           *)
(***************************************************************************)
Called == op = "hostLookupOrder"

PrefersGo == ~r.isNil /\ r.PreferGo

\* the fallback order of the last call, as the specification defines it
TheFallback ==
    IF c.netGo \/ PrefersGo
    THEN IF c.goos = "windows" THEN "hostLookupDNS" ELSE "hostLookupFilesDNS"
    ELSE "hostLookupCgo"

Lowered(h) == [i \in 1..Len(h) |-> lowerASCII(h[i])]

\* h without one trailing dot
Undotted(h) == IF Len(h) > 0 /\ h[Len(h)] = "." THEN [i \in 1..(Len(h) - 1) |-> h[i]] ELSE h

EndsWith(h, suffix) == \E k \in 0..Len(h) : h = SubSeq(h, 1, k) \o suffix

EndsInDotLocal(h) == EndsWith(Lowered(Undotted(h)), DotLocal)

HasSpecialChar(h) == \E i \in 1..Len(h) : h[i] \in {"\\", "%"}

\* no rule before the NSS lookup returns
ReachesNSS ==
    /\ Called
    /\ c.goos \notin {"windows", "plan9", "android", "openbsd"}
    /\ ~c.forceCgoLookupHost
    /\ ~c.resolv.unknownOpt
    /\ ~HasSpecialChar(hostname)
    /\ ~EndsInDotLocal(hostname)

SourceNames == {nss.sources[i].source : i \in 1..Len(nss.sources)}

StandardFilesDNSOnly ==
    /\ nss.err = "nil"
    /\ Len(nss.sources) > 0
    /\ \A i \in 1..Len(nss.sources) : nss.sources[i] \in {Std(SrcFiles), Std(SrcDNS)}

\* C1: when the NSS scan is reached with netGo and PreferGo unset and the
\* "hosts" sources are only standard "files" and "dns", the result is
\* hostLookupFilesDNS if "files" comes first, hostLookupDNSFiles if "dns"
\* comes first, hostLookupFiles with only "files", hostLookupDNS with only
\* "dns".
C1_FilesDNSOrder ==
    (ReachesNSS /\ ~c.netGo /\ ~PrefersGo /\ StandardFilesDNSOnly) =>
        ret = IF SourceNames = {SrcFiles, SrcDNS}
              THEN IF nss.sources[1].source = SrcFiles
                   THEN "hostLookupFilesDNS" ELSE "hostLookupDNSFiles"
              ELSE IF SourceNames = {SrcFiles} THEN "hostLookupFiles"
              ELSE "hostLookupDNS"

C1_Witness ==
    /\ ReachesNSS /\ ~c.netGo /\ ~PrefersGo /\ StandardFilesDNSOnly
    /\ nss.sources = <<Std(SrcDNS), Std(SrcFiles)>>
    /\ ret = "hostLookupDNSFiles"

\* the OpenBSD table of the specification
OpenBSDTable(rc) ==
    IF rc.err = "ErrNotExist" THEN "hostLookupFiles"
    ELSE IF rc.lookup = <<>> THEN "hostLookupDNSFiles"
    ELSE IF rc.lookup = <<"bind">> THEN "hostLookupDNS"
    ELSE IF rc.lookup = <<"bind", "file">> THEN "hostLookupDNSFiles"
    ELSE IF rc.lookup = <<"file">> THEN "hostLookupFiles"
    ELSE IF rc.lookup = <<"file", "bind">> THEN "hostLookupFilesDNS"
    ELSE TheFallback

OpenBSDCase ==
    /\ Called
    /\ c.goos = "openbsd"
    /\ ~c.forceCgoLookupHost
    /\ ~c.resolv.unknownOpt
    /\ ~HasSpecialChar(hostname)

\* C2: on openbsd, when no earlier rule returned, the result is the table
\* absent -> Files, empty lookup -> DNSFiles, [bind] -> DNS,
\* [bind file] -> DNSFiles, [file] -> Files, [file bind] -> FilesDNS,
\* anything else -> fallback; it depends on nothing but the resolver
\* configuration (not on the NSS sources, not on a .local name).
C2_OpenBSDTable == OpenBSDCase => ret = OpenBSDTable(c.resolv)

C2_Witness ==
    /\ OpenBSDCase
    /\ c.resolv.lookup = <<"file", "bind">>
    /\ EndsInDotLocal(hostname)
    /\ nss.err = "nil" /\ SrcMyhostname \in SourceNames
    /\ ret = "hostLookupFilesDNS"

\* C3: except on openbsd, a hostname ending in ".local" (in any letter case,
\* with or without one trailing dot) gets the fallback order, whatever the
\* NSS sources and hasMDNSAllow are.
C3_DotLocalFallsBack ==
    (Called /\ c.goos # "openbsd" /\ EndsInDotLocal(hostname)) => ret = TheFallback

C3_Witness ==
    /\ Called /\ c.goos = "linux" /\ ~c.forceCgoLookupHost /\ ~c.resolv.unknownOpt
    /\ hostname = <<"X", ".", "L", "o", "C", "A", "L", ".">>
    /\ nss.err = "nil" /\ nss.sources = <<Std(SrcFiles), Std(SrcDNS)>>
    /\ ~c.netGo /\ ~PrefersGo
    /\ ret = "hostLookupCgo"

HasMyhostname ==
    /\ nss.err = "nil"
    /\ \E i \in 1..Len(nss.sources) : nss.sources[i].source = SrcMyhostname

\* the names the myhostname NSS module answers for
MyhostnameName(h) ==
    \/ gh.err # "nil"
    \/ Lowered(h) = Lowered(gh.hn)
    \/ Lowered(h) \in {Localhost, LocalhostLocaldomain, Gateway, Outbound}
    \/ EndsWith(Lowered(h), DotLocalhost)
    \/ EndsWith(Lowered(h), DotLocalhostLocaldomain)

RECURSIVE WithoutMyhostname(_)
WithoutMyhostname(srcs) ==
    IF srcs = <<>> THEN <<>>
    ELSE IF Head(srcs).source = SrcMyhostname THEN WithoutMyhostname(Tail(srcs))
    ELSE <<Head(srcs)>> \o WithoutMyhostname(Tail(srcs))

\* the result of the same call had nsswitch.conf not listed myhostname; a
\* list of nothing but myhostname classifies as neither files nor dns
ResultWithoutMyhostname ==
    LET rest == WithoutMyhostname(nss.sources) IN
    IF rest = <<>> THEN TheFallback
    ELSE hostLookupOrder(c, r, hostname, [nss EXCEPT !.sources = rest], gh)

\* C4 as stated: whenever the "hosts" sources contain "myhostname", a
\* hostname equal to the machine's hostname, a localhost form, _gateway or
\* _outbound (any letter case), or any hostname when getHostname fails, gets
\* the fallback order; for any other hostname the source changes nothing.
C4_AsStated ==
    (Called /\ HasMyhostname) =>
        IF MyhostnameName(hostname)
        THEN ret = TheFallback
        ELSE ret = ResultWithoutMyhostname

\* C4, amended: the same on every goos but openbsd, for the hostname taken
\* without one trailing dot.
C4_MyhostnameFallsBack ==
    (Called /\ HasMyhostname /\ c.goos # "openbsd") =>
        IF MyhostnameName(Undotted(hostname))
        THEN ret = TheFallback
        ELSE ret = ResultWithoutMyhostname

C4_Witness ==
    /\ ReachesNSS /\ ~c.netGo /\ ~PrefersGo
    /\ nss.err = "nil" /\ nss.sources = <<Std(SrcFiles), Std(SrcMyhostname)>>
    /\ gh.err = "nil"
    /\ hostname = <<"H", "o", "s", "T">>
    /\ ret = "hostLookupCgo"

\* C5 as stated: on windows and plan9 the result is hostLookupDNS, whatever
\* the hostname, the NSS content, netGo/PreferGo and the other flags are.
C5_AsStated ==
    (Called /\ c.goos \in {"windows", "plan9"}) => ret = "hostLookupDNS"

\* C5, amended: on windows and plan9 the result is the fallback order,
\* hostLookupCgo unless netGo or PreferGo is set, and then hostLookupDNS on
\* windows and hostLookupFilesDNS on plan9; it depends on nothing else.
C5_NoNativeResolverFallsBack ==
    (Called /\ c.goos \in {"windows", "plan9"}) =>
        ret = IF ~(c.netGo \/ PrefersGo) THEN "hostLookupCgo"
              ELSE IF c.goos = "windows" THEN "hostLookupDNS"
              ELSE "hostLookupFilesDNS"

C5_Witness ==
    /\ Called /\ c.goos = "plan9" /\ c.netGo
    /\ c.resolv.isNil /\ ~c.forceCgoLookupHost
    /\ nss.err = "nil" /\ nss.sources = <<Std(SrcDNS)>>
    /\ ret = "hostLookupFilesDNS"

\* C6: when the NSS lookup is reached and nsswitch.conf is absent, or lists
\* no "hosts" sources, the result is hostLookupFilesDNS, except on solaris
\* where it is the fallback order; when nsswitch.conf failed otherwise, the
\* result is the fallback order.
C6_NSSAbsentDefault ==
    ReachesNSS =>
        /\ (nss.err = "ErrNotExist" \/ (nss.err = "nil" /\ nss.sources = <<>>)) =>
               ret = IF c.goos = "solaris" THEN TheFallback ELSE "hostLookupFilesDNS"
        /\ nss.err \notin {"nil", "ErrNotExist"} => ret = TheFallback

C6_Witness ==
    /\ ReachesNSS /\ c.goos = "solaris" /\ ~c.netGo /\ ~PrefersGo
    /\ nss.err = "ErrNotExist"
    /\ ret = "hostLookupCgo"

\* C7: forceCgoLookupHost, resolv.unknownOpt, goos android and a hostname
\* with a backslash or '%' each give the fallback order, before the openbsd
\* rule and the NSS default, whatever the NSS sources, resolv.lookup,
\* resolv.err and the machine hostname are.
C7_ForcedFallback ==
    (/\ Called
     /\ \/ c.forceCgoLookupHost
        \/ c.resolv.unknownOpt
        \/ c.goos = "android"
        \/ HasSpecialChar(hostname)) => ret = TheFallback

C7_Witness ==
    /\ Called /\ c.goos = "openbsd" /\ ~c.forceCgoLookupHost /\ ~c.resolv.unknownOpt
    /\ c.resolv.lookup = <<"bind">>
    /\ hostname = <<"x", "%", "e">>
    /\ ~c.netGo /\ ~PrefersGo
    /\ ret = "hostLookupCgo"

\* C8: a call with a PreferGo resolver returns what the same call returns
\* with c.netGo set and a nil resolver, and never hostLookupCgo.
C8_PreferGoActsLikeNetGo ==
    (Called /\ PrefersGo) =>
        /\ ret = hostLookupOrder([c EXCEPT !.netGo = TRUE], NilResolver, hostname, nss, gh)
        /\ ret # "hostLookupCgo"

C8_Witness ==
    /\ Called /\ PrefersGo /\ ~c.netGo
    /\ c.goos = "darwin" /\ c.forceCgoLookupHost
    /\ hostname = Localhost
    /\ ret = "hostLookupFilesDNS"

(***************************************************************************)
(* Properties of systemConf                                                *)
(***************************************************************************)
\* what initConfVal makes of the environment, run once from start to end
InitComplete ==
    \A p \in Callers : pc[p] \notin {"init_mode", "init_os", "init_env", "init_resolv", "init_mdns", "init_done"}

\* C9: under any interleaving of systemConf callers the body of initConfVal
\* is entered at most once, a caller returns only once that one run is
\* complete, and every call returns the same snapshot, which equals confVal
\* ever after.
C9_InitOnce ==
    /\ initRuns <= 1
    /\ \A p \in Callers :
        /\ pc[p] = "return" => (onceDone /\ initRuns = 1 /\ InitComplete)
        /\ got[p] # <<>> => (onceDone /\ initRuns = 1 /\ got[p] = <<confVal>>)

C9_Witness ==
    /\ \A p \in Callers : got[p] # <<>> /\ calls[p] = MaxCalls /\ pc[p] = "idle"
    /\ initRuns = 1
    /\ ~confVal.resolv.isNil
    /\ confVal.hasMDNSAllow

(***************************************************************************)
(* The NSS cache under concurrent readers and the override hook            *)
(***************************************************************************)
InitNSS ==
    /\ env = DefaultEnv
    /\ ConfIdle
    /\ EngineIdle
    /\ NSSIdle

NextNSS ==
    \/ Tick
    \/ EditFile
    \/ \E p \in Readers : getSystemNSSCall(p)
    \/ \E p \in Readers : GetCheck(p)
    \/ \E p \in Readers : GetGate(p)
    \/ \E p \in Readers : GetRecheck(p)
    \/ \E p \in Readers : GetStore(p)
    \/ \E p \in Readers : GetRelease(p)
    \/ \E p \in Readers : GetRead(p)
    \/ \E p \in Readers : getSystemNSSReturn(p)
    \/ \E v \in Overrides, d \in {0, Hour} : setSystemNSSCall(v, d)
    \/ SetLock
    \/ SetStore
    \/ SetUnlock
    \/ SetAcquireSema
    \/ SetTime
    \/ SetReleaseSema

SpecNSS == InitNSS /\ [][NextNSS]_vars

Whole(v) == v.sources = v.err

Reparsing == {p \in Readers : npc[p] = "store"}

CacheValues == {ParsedFile(0), ParsedFile(1)} \cup Overrides

EnvGoos == Goos \cup {"ios"}

\* GODEBUG=netdns settings that select no mode, go, or cgo with a debug level
NetdnsSettings == {<<>>, ModeGo, ModeCgo \o <<"+", "1">>}

\* the build tags netgo and netcgo; a build carries at most one of them
BuildTags == {<<FALSE, FALSE>>, <<TRUE, FALSE>>, <<FALSE, TRUE>>}

EnvVarStates == {"unset", "empty", "set"}

\* what dnsReadConfig can return (line 114): never nil, with or without an error
ResolvConfReads ==
    {[DefaultResolvConf EXCEPT !.err = e] : e \in {"ErrNotExist", "ErrPermission", "ErrOther"}}
    \cup {[DefaultResolvConf EXCEPT !.err = "nil", !.unknownOpt = u, !.lookup = l] :
            u \in BOOLEAN, l \in {<<>>, <<"file", "bind">>}}

EnvWide ==
    {[GOOS |-> g, netdns |-> nd, tagNetGo |-> t[1], tagNetCgo |-> t[2],
      RES_OPTIONS |-> ro, HOSTALIASES |-> ha, LOCALDOMAIN |-> ld,
      ASR_CONFIG |-> asr, resolvConf |-> rc, mdnsAllow |-> FALSE] :
        g \in EnvGoos, nd \in NetdnsSettings, t \in BuildTags,
        ro \in EnvVarStates, ha \in EnvVarStates, ld \in EnvVarStates,
        asr \in {"unset", "set"}, rc \in ResolvConfReads}

\* the goroutine that bootstraps and then looks names up
BootCaller == 1

\* names for the lookups on the snapshot: plain, .local, and the machine's own
SnapshotNames == {<<>>, <<"x">>, <<"x">> \o DotLocal, HostName \o DotStr}

InitBoot ==
    /\ env \in EnvWide
    /\ ConfIdle
    /\ EngineIdle
    /\ NSSIdle

\* systemConf().hostLookupOrder(r, hostname), between two systemConf calls
SnapshotHostLookupOrderCall(p, res, h) ==
    /\ pc[p] = "idle"
    /\ got[p] # <<>>
    /\ op = "none"
    /\ c' = got[p][1]
    /\ r' = res
    /\ hostname' = h
    /\ ret' = hostLookupOrder(got[p][1], res, h, nss, gh)
    /\ op' = "hostLookupOrder"
    /\ UNCHANGED <<nss, gh>>
    /\ UNCHANGED <<confVars, nssVars>>

\* systemConf().canUseCgo(): hostLookupOrder(nil, "") on the snapshot
SnapshotCanUseCgoCall(p) ==
    /\ pc[p] = "idle"
    /\ got[p] # <<>>
    /\ op = "none"
    /\ c' = got[p][1]
    /\ r' = NilResolver
    /\ hostname' = <<>>
    /\ ret' = IF hostLookupOrder(got[p][1], NilResolver, <<>>, nss, gh) = "panic" THEN "panic"
              ELSE IF canUseCgo(got[p][1], nss, gh) THEN "true" ELSE "false"
    /\ op' = "canUseCgo"
    /\ UNCHANGED <<nss, gh>>
    /\ UNCHANGED <<confVars, nssVars>>

NextBoot ==
    \/ systemConfCall(BootCaller)
    \/ OnceFast(BootCaller)
    \/ OnceLock(BootCaller)
    \/ InitMode(BootCaller)
    \/ InitOS(BootCaller)
    \/ InitEnv(BootCaller)
    \/ InitResolv(BootCaller)
    \/ InitMdns(BootCaller)
    \/ OnceDone(BootCaller)
    \/ OnceUnlock(BootCaller)
    \/ systemConfReturn(BootCaller)
    \/ \E res \in Resolvers, h \in SnapshotNames : SnapshotHostLookupOrderCall(BootCaller, res, h)
    \/ SnapshotCanUseCgoCall(BootCaller)

SpecBoot == InitBoot /\ [][NextBoot]_vars

\* the platforms on which initConfVal reaches the environment test (lines 86-93)
ReachesEnvTest == env.GOOS \notin {"windows", "plan9", "darwin", "ios"}

\* the native override: the netcgo tag or GODEBUG=netdns=cgo (line 50)
NativeOverride == env.tagNetCgo \/ goDebugNetDNS(env.netdns).dnsMode = ModeCgo

\* initConfVal has got to reading resolv.conf, or has read it
ReadsResolvConf ==
    \/ \E p \in Callers : pc[p] \in {"init_resolv", "init_mdns"}
    \/ ~confVal.resolv.isNil

\* the bootstrap forced the native path and left resolv.conf unread
ForcedBeforeResolv ==
    /\ ~ReadsResolvConf
    /\ onceDone => (confVal.forceCgoLookupHost /\ confVal.resolv.isNil)

\* C11 as stated: any of the three variables being set, even to the empty
\* string, or the native override, forces the native path before resolv.conf
\* is read.
C11_AsStated ==
    (/\ ReachesEnvTest
     /\ \/ env.RES_OPTIONS # "unset"
        \/ env.HOSTALIASES # "unset"
        \/ env.LOCALDOMAIN # "unset"
        \/ NativeOverride)
    => ForcedBeforeResolv

\* C11: on a platform other than windows, plan9, darwin and ios, the
\* bootstrap forces the native path and returns before reading resolv.conf
\* whenever RES_OPTIONS or HOSTALIASES has a non-empty value, LOCALDOMAIN is
\* set at all (even to the empty string), or the native override is set.
C11_EnvForcesNative ==
    (/\ ReachesEnvTest
     /\ \/ env.RES_OPTIONS = "set"
        \/ env.HOSTALIASES = "set"
        \/ env.LOCALDOMAIN # "unset"
        \/ NativeOverride)
    => ForcedBeforeResolv

\* a finished bootstrap that LOCALDOMAIN="" alone forced to the native path
C11_Witness ==
    /\ onceDone
    /\ ReachesEnvTest
    /\ env.LOCALDOMAIN = "empty"
    /\ env.RES_OPTIONS = "unset"
    /\ env.HOSTALIASES = "unset"
    /\ ~NativeOverride
    /\ confVal.forceCgoLookupHost
    /\ confVal.resolv.isNil
    /\ got[BootCaller] = <<confVal>>

\* the snapshots in use: confVal once the bootstrap is done, and what
\* systemConf returned
Snapshots ==
    (IF onceDone THEN {confVal} ELSE {}) \cup {got[p][1] : p \in {q \in Callers : got[q] # <<>>}}

\* a lookup or canUseCgo has been made on a snapshot
CalledOnSnapshot == op \in {"hostLookupOrder", "canUseCgo"}

\* C12: once initConfVal has completed, along any of its paths, the resolv of
\* the snapshot is nil only if forceCgoLookupHost is true or goos is windows
\* or plan9; and no hostLookupOrder or canUseCgo call on a systemConf()
\* snapshot, for any hostname and resolver, reads a field of a nil resolv.
C12_NilResolvNeverRead ==
    /\ \A s \in Snapshots :
        s.resolv.isNil => (s.forceCgoLookupHost \/ s.goos \in {"windows", "plan9"})
    /\ CalledOnSnapshot => ret # "panic"

\* a lookup on a plan9 snapshot whose resolv is nil and whose native path is
\* not forced: only the platform test keeps resolv unread
C12_Witness ==
    /\ op = "hostLookupOrder"
    /\ c = confVal
    /\ c.resolv.isNil
    /\ ~c.forceCgoLookupHost
    /\ c.goos = "plan9"
    /\ ~r.isNil
    /\ hostname = <<"x">>
    /\ ret = "hostLookupFilesDNS"

====
